---- MODULE Spec2Model ----
(***************************************************************************)
(* Model of the HTTP redirector of src/src/main.rs.                        *)
(*                                                                         *)
(* Strings are sequences of bytes (integers 0..255), so that byte-exact    *)
(* comparison, splitting on '=' and header-value validation are computed   *)
(* rather than assumed.  Option<T> is a sequence of length at most one:    *)
(* None is << >> and Some(x) is << x >>.                                   *)
(***************************************************************************)
EXTENDS Integers, Sequences, FiniteSets, TLC

VARIABLES
    argv,        \* the command line: [insecure, pairs (raw strings), fallback]
    pc,          \* position of main: "start", "loop", "serving", "exit"
    pairs,       \* opt.pairs not yet consumed by the loop of main
    domain_map,  \* the HashMap<Vec<u8>, String> main is building
    app,         \* Option<App>: the shared Arc<App>, once constructed
    bound,       \* TRUE once Server::bind has been called
    err,         \* Option<error>: the error the process exited with
    handlers     \* per connection slot: [pc, req, res]

vars == <<argv, pc, pairs, domain_map, app, bound, err, handlers>>

----------------------------------------------------------------------------
(* Bounds of the model *)

MaxPairs == 2       \* positional pair arguments on the command line
NumHandlers == 2    \* requests in flight at the same time
MaxLen == 4         \* length of a pair string in the parsing specification

----------------------------------------------------------------------------
(* Option and byte strings *)

None == << >>
Some(x) == << x >>

\* "=" is 61, "a" 97, "b" 98, "A" 65, "x" 120, "y" 121, "f" 102, "." 46,
\* ":" 58, "8" 56, "/" 47, "?" 63, "p" 112, "k" 107, "e" 101, LF 10;
\* 195 169 is the UTF-8 encoding of e-acute.
StrHttp == <<104, 116, 116, 112>>            \* "http"
StrHttps == <<104, 116, 116, 112, 115>>      \* "https"
StrColonSlashSlash == <<58, 47, 47>>         \* "://"

RECURSIVE SeqsUpTo(_, _)
SeqsUpTo(S, n) ==
    IF n = 0 THEN {<< >>}
    ELSE LET shorter == SeqsUpTo(S, n - 1)
         IN  shorter \cup {Append(s, x) : s \in shorter, x \in S}

----------------------------------------------------------------------------
(* DomainPair::parse_option and FromStr *)

\* str::split('='): the pieces of s between the separators; never empty
RECURSIVE split(_, _)
split(s, sep) ==
    IF \A i \in 1..Len(s) : s[i] # sep
    THEN <<s>>
    ELSE LET i == CHOOSE k \in 1..Len(s) :
                      s[k] = sep /\ \A j \in 1..(k - 1) : s[j] # sep
         IN  <<SubSeq(s, 1, i - 1)>> \o split(SubSeq(s, i + 1, Len(s)), sep)

\* the bug of splitting at the first '=' only (split_once): "a=b=c" is accepted
parse_option_split_once(s) ==
    IF \A i \in 1..Len(s) : s[i] # 61
    THEN None
    ELSE LET i == CHOOSE k \in 1..Len(s) :
                      s[k] = 61 /\ \A j \in 1..(k - 1) : s[j] # 61
         IN  Some([source |-> SubSeq(s, 1, i - 1),
                   dest |-> SubSeq(s, i + 1, Len(s))])

parse_option(s) ==
    LET pieces == split(s, 61)
    IN  IF Len(pieces) < 2 THEN None                    \* pieces.next()? (dest)
        ELSE IF Len(pieces) = 2                         \* pieces.next().is_none()
             THEN Some([source |-> pieces[1], dest |-> pieces[2]])
             ELSE None

from_str(s) ==
    LET r == parse_option(s)
    IN  IF r = None
        THEN [ok |-> FALSE, pair |-> None,
              err |-> [msg |-> "Invalid domain pair: {}", arg |-> s]]
        ELSE [ok |-> TRUE, pair |-> r,
              err |-> [msg |-> "", arg |-> << >>]]

----------------------------------------------------------------------------
(* The request, the response and the pieces of App::handle_inner *)

\* http::Uri as hyper hands it over: the scheme and the authority are present
\* for a request target in absolute form, absent in origin form
DisplayUri(uri) ==
    (IF uri.scheme = None THEN << >> ELSE uri.scheme[1] \o StrColonSlashSlash)
    \o (IF uri.authority = None THEN << >> ELSE uri.authority[1])
    \o uri.path
    \o (IF uri.query = None THEN << >> ELSE <<63>> \o uri.query[1])

EmptyHeaders == [n \in {} |-> << >>]

make_response(code, body, headers) ==
    LET RECURSIVE insert_all(_, _)
        insert_all(m, hs) ==
            IF hs = << >> THEN m
            ELSE insert_all([n \in DOMAIN m \cup {hs[1][1]} |->
                                IF n = hs[1][1] THEN hs[1][2] ELSE m[n]],
                            Tail(hs))
    IN  [status |-> code, body |-> body, headers |-> insert_all(EmptyHeaders, headers)]

PlainBody(text) == [text |-> text, location |-> << >>, error |-> ""]

\* the bug of defaulting an absent Host header to the empty host
get_host_or_default(req) ==
    IF req.host = None THEN Some(<< >>) ELSE req.host

\* req.headers().get(HOST)
get_host(req) == req.host

\* HashMap::get
map_get(m, k) == IF k \in DOMAIN m THEN Some(m[k]) ELSE None

to_ascii_lowercase(s) ==
    [i \in 1..Len(s) |-> IF s[i] >= 65 /\ s[i] <= 90 THEN s[i] + 32 ELSE s[i]]

\* the bug of preferring the fallback over the mapped destination
lookup_dest_fallback_first(a, host) ==
    IF a.fallback # None THEN a.fallback ELSE map_get(a.domain_map, host)

\* the bug of ignoring the fallback
lookup_dest_no_fallback(a, host) == map_get(a.domain_map, host)

\* the bug of redirecting an unmapped host to itself
lookup_dest_echo(a, host) ==
    LET d == map_get(a.domain_map, host)
    IN  IF d # None THEN d
        ELSE IF a.fallback # None THEN a.fallback ELSE Some(host)

\* the bug of folding the case of the host before the lookup
lookup_dest_lowercase(a, host) ==
    LET d == map_get(a.domain_map, to_ascii_lowercase(host))
    IN  IF d # None THEN d ELSE a.fallback

\* the destination of a host: Some(dest), or None for "Unsupported hostname"
lookup_dest(a, host) ==
    LET d == map_get(a.domain_map, host)
    IN  IF d # None THEN d ELSE a.fallback

format_location(a, dest, uri) ==
    (IF a.insecure THEN StrHttp ELSE StrHttps)
    \o StrColonSlashSlash \o dest \o DisplayUri(uri)

\* the bug of validating as HeaderValue::from_bytes does (obs-text allowed)
is_visible_ascii_obs_text(b) == (b >= 32 /\ b # 127) \/ b = 9

\* HeaderValue::from_str accepts visible ASCII (32..126) and the tab
is_visible_ascii(b) == (b >= 32 /\ b < 127) \/ b = 9

HeaderValue_from_str(s) ==
    IF \A i \in 1..Len(s) : is_visible_ascii(s[i])
    THEN [ok |-> TRUE, value |-> s, error |-> ""]
    ELSE [ok |-> FALSE, value |-> << >>, error |-> "InvalidHeaderValue"]

handle_inner(a, req) ==
    LET h == get_host(req)
    IN  IF h = None
        THEN make_response(400, PlainBody("Missing host header"), << >>)
        ELSE
        LET d == lookup_dest(a, h[1])
        IN  IF d = None
            THEN make_response(400, PlainBody("Unsupported hostname"), << >>)
            ELSE
            LET location == format_location(a, d[1], req.uri)
                hv == HeaderValue_from_str(location)
            IN  IF hv.ok
                THEN make_response(308, PlainBody("Redirecting"),
                                   << <<"location", hv.value>> >>)
                ELSE make_response(
                         500,
                         [text |-> "Unable to convert location {:?} to HTTP header value: {:?}",
                          location |-> location, error |-> hv.error],
                         << >>)

----------------------------------------------------------------------------
(* Inputs *)

\* pair arguments: "a=x", "a=y", "A=y", "a=<e-acute>", and the malformed "ax"
ArgChoices ==
    { <<97, 61, 120>>, <<97, 61, 121>>, <<65, 61, 121>>,
      <<97, 61, 195, 169>>, <<97, 120>> }

\* --fallback: absent, "x" (also a destination of ArgChoices), or a name
\* holding a line feed
FallbackChoices == { None, Some(<<120>>), Some(<<102, 10>>) }

\* Host header: absent, "a", "A", "a.", "a:8"
HostChoices ==
    { None, Some(<<97>>), Some(<<65>>), Some(<<97, 46>>), Some(<<97, 58, 56>>) }

\* request targets: "/p?k" (origin form) and "http://e/p" (absolute form).
\* The transport parses the target into an http::Uri before the handler runs,
\* which admits visible ASCII only, so every byte of a target is legal in a
\* header value.
UriChoices ==
    { [scheme |-> None, authority |-> None, path |-> <<47, 112>>,
       query |-> Some(<<107>>)],
      [scheme |-> Some(StrHttp), authority |-> Some(<<101>>), path |-> <<47, 112>>,
       query |-> None] }

Requests == [host : HostChoices, uri : UriChoices]

Idle == [pc |-> "idle", req |-> None, res |-> None]

----------------------------------------------------------------------------
(* The state machine *)

InitRest ==
    /\ pc = "start"
    /\ pairs = << >>
    /\ domain_map = [k \in {} |-> << >>]
    /\ app = None
    /\ bound = FALSE
    /\ err = None
    /\ handlers = [h \in 1..NumHandlers |-> Idle]

Init ==
    /\ argv \in [insecure : BOOLEAN,
                 pairs : SeqsUpTo(ArgChoices, MaxPairs),
                 fallback : FallbackChoices]
    /\ InitRest

\* Opt::parse(): every positional argument goes through DomainPair::from_str
ParseOptOk ==
    /\ pc = "start"
    /\ \A i \in 1..Len(argv.pairs) : from_str(argv.pairs[i]).ok
    /\ pairs' = [i \in 1..Len(argv.pairs) |-> from_str(argv.pairs[i]).pair[1]]
    /\ pc' = "loop"
    /\ UNCHANGED <<argv, domain_map, app, bound, err, handlers>>

ParseOptErr ==
    /\ pc = "start"
    /\ \E i \in 1..Len(argv.pairs) :
          /\ ~from_str(argv.pairs[i]).ok
          /\ \A j \in 1..(i - 1) : from_str(argv.pairs[j]).ok
          /\ err' = Some(from_str(argv.pairs[i]).err)
    /\ pc' = "exit"
    /\ UNCHANGED <<argv, pairs, domain_map, app, bound, handlers>>

\* the bug of inserting without the contains_key check: the later pair wins
LoopBail_overwrite ==
    /\ pc = "loop"
    /\ pairs # << >>
    /\ Head(pairs).source \in DOMAIN domain_map
    /\ domain_map' = [k \in DOMAIN domain_map |->
                         IF k = Head(pairs).source THEN Head(pairs).dest
                         ELSE domain_map[k]]
    /\ pairs' = Tail(pairs)
    /\ UNCHANGED <<argv, pc, app, bound, err, handlers>>

\* one iteration of the loop of main whose source is already a key
LoopBail ==
    /\ pc = "loop"
    /\ pairs # << >>
    /\ Head(pairs).source \in DOMAIN domain_map
    /\ err' = Some([msg |-> "Duplicate destination for domain name {}",
                    arg |-> Head(pairs).source])
    /\ pc' = "exit"
    /\ UNCHANGED <<argv, pairs, domain_map, app, bound, handlers>>

\* one iteration of the loop of main that inserts
LoopInsert ==
    /\ pc = "loop"
    /\ pairs # << >>
    /\ Head(pairs).source \notin DOMAIN domain_map
    /\ domain_map' = [k \in DOMAIN domain_map \cup {Head(pairs).source} |->
                         IF k = Head(pairs).source THEN Head(pairs).dest
                         ELSE domain_map[k]]
    /\ pairs' = Tail(pairs)
    /\ UNCHANGED <<argv, pc, app, bound, err, handlers>>

\* Arc::new(App {..}), make_service_fn, Server::bind(..).serve(..)
Serve ==
    /\ pc = "loop"
    /\ pairs = << >>
    /\ app' = Some([domain_map |-> domain_map,
                    fallback |-> argv.fallback,
                    insecure |-> argv.insecure])
    /\ bound' = TRUE
    /\ pc' = "serving"
    /\ UNCHANGED <<argv, pairs, domain_map, err, handlers>>

\* the transport calls the service with a request: app.clone(); app.handle(req)
Accept(h) ==
    /\ pc = "serving"
    /\ handlers[h].pc = "idle"
    /\ \E req \in Requests :
          handlers' = [handlers EXCEPT ![h] =
                          [pc |-> "pending", req |-> Some(req), res |-> None]]
    /\ UNCHANGED <<argv, pc, pairs, domain_map, app, bound, err>>

\* the bug of a handler recording the host it served in the shared map
Handle_caching(h) ==
    /\ handlers[h].pc = "pending"
    /\ LET req == handlers[h].req[1]
           a == app[1]
           res == handle_inner(a, req)
       IN  /\ handlers' = [handlers EXCEPT ![h].pc = "done", ![h].res = Some(res)]
           /\ app' = IF req.host # None /\ res.status = 308
                     THEN Some([a EXCEPT !.domain_map =
                                   [k \in DOMAIN a.domain_map \cup {req.host[1]} |->
                                       IF k \in DOMAIN a.domain_map
                                       THEN a.domain_map[k]
                                       ELSE a.fallback[1]]])
                     ELSE app
    /\ UNCHANGED <<argv, pc, pairs, domain_map, bound, err>>

\* App::handle: the future has no await point of its own, one poll completes it
Handle(h) ==
    /\ handlers[h].pc = "pending"
    /\ handlers' = [handlers EXCEPT
                       ![h].pc = "done",
                       ![h].res = Some(handle_inner(app[1], handlers[h].req[1]))]
    /\ UNCHANGED <<argv, pc, pairs, domain_map, app, bound, err>>

\* the transport has written the response; the slot serves the next request
Release(h) ==
    /\ handlers[h].pc = "done"
    /\ handlers' = [handlers EXCEPT ![h] = Idle]
    /\ UNCHANGED <<argv, pc, pairs, domain_map, app, bound, err>>

Next ==
    \/ ParseOptOk
    \/ ParseOptErr
    \/ LoopBail
    \/ LoopInsert
    \/ Serve
    \/ \E h \in 1..NumHandlers : Accept(h)
    \/ \E h \in 1..NumHandlers : Handle(h)
    \/ \E h \in 1..NumHandlers : Release(h)

Spec == Init /\ [][Next]_vars

----------------------------------------------------------------------------
(* Parsing of one pair string, over every string of a small alphabet *)

ParseAlphabet == {97, 98, 61}

InitParse ==
    /\ argv \in [insecure : {FALSE},
                 pairs : {<<s>> : s \in SeqsUpTo(ParseAlphabet, MaxLen)},
                 fallback : {None}]
    /\ InitRest

NextParse ==
    \/ ParseOptOk
    \/ ParseOptErr

SpecParse == InitParse /\ [][NextParse]_vars

----------------------------------------------------------------------------
(* Vocabulary of the properties *)

DoneHandlers == {h \in 1..NumHandlers : handlers[h].pc = "done"}
ReqOf(h) == handlers[h].req[1]
ResOf(h) == handlers[h].res[1]

\* the request URI as the server renders it
UriText(h) == DisplayUri(ReqOf(h).uri)

HasHost(h) == ReqOf(h).host # None
HostOf(h) == ReqOf(h).host[1]
Mapped(h) == HasHost(h) /\ HostOf(h) \in DOMAIN app[1].domain_map
Unmapped(h) == HasHost(h) /\ HostOf(h) \notin DOMAIN app[1].domain_map

\* <scheme>://<dest><P>
Url(dest, P) ==
    (IF app[1].insecure THEN <<104, 116, 116, 112>>
     ELSE <<104, 116, 116, 112, 115>>) \o <<58, 47, 47>> \o dest \o P

\* a legal header value: every byte is visible ASCII or a horizontal tab
LegalHeaderValue(s) == \A i \in 1..Len(s) : s[i] \in (32..126) \cup {9}

Redirect(url) ==
    [status |-> 308,
     body |-> [text |-> "Redirecting", location |-> << >>, error |-> ""],
     headers |-> [n \in {"location"} |-> url]]

Reject(text) ==
    [status |-> 400,
     body |-> [text |-> text, location |-> << >>, error |-> ""],
     headers |-> [n \in {} |-> << >>]]

NoLocation(res) == "location" \notin DOMAIN res.headers

\* 500, a body that names the URL, no Location header
EncodingError(res, url) ==
    /\ res.status = 500
    /\ res.body.location = url
    /\ NoLocation(res)

----------------------------------------------------------------------------
(* C1 *)

----------------------------------------------------------------------------
(* C2 *)

----------------------------------------------------------------------------
(* C3 *)

\* C3: a request with an unmapped Host, when no fallback is configured, is
\* answered 400 "Unsupported hostname" without a Location header, for every
\* request URI and either value of the insecure flag.
C3_UnmappedHostNoFallbackRejected ==
    \A h \in DoneHandlers :
        (Unmapped(h) /\ app[1].fallback = None) =>
            ResOf(h) = Reject("Unsupported hostname")

C3_Witness ==
    \E h \in DoneHandlers :
        /\ Unmapped(h)
        /\ app[1].fallback = None
        /\ app[1].insecure
        /\ ReqOf(h).uri.scheme # None
        /\ ResOf(h).status = 400

----------------------------------------------------------------------------
(* C4 *)

\* C4: a request without a Host header is answered 400 "Missing host header"
\* without a Location header under every configuration; neither the domain
\* map nor the fallback is applied to it.
C4_MissingHostRejected ==
    \A h \in DoneHandlers :
        ~HasHost(h) => ResOf(h) = Reject("Missing host header")

C4_Witness ==
    \E h \in DoneHandlers :
        /\ ~HasHost(h)
        /\ app[1].fallback # None
        /\ DOMAIN app[1].domain_map # {}
        /\ ResOf(h).status = 400

----------------------------------------------------------------------------
(* C5 *)

EqualsSigns(s) == {i \in 1..Len(s) : s[i] = 61}
FirstEquals(s) == CHOOSE i \in EqualsSigns(s) : \A j \in EqualsSigns(s) : i <= j
TextBefore(s) == SubSeq(s, 1, FirstEquals(s) - 1)
TextAfter(s) == SubSeq(s, FirstEquals(s) + 1, Len(s))

\* two entries of the list of pairs with the same source
DuplicateSource ==
    \E i, j \in 1..Len(argv.pairs) :
        /\ i < j
        /\ EqualsSigns(argv.pairs[i]) # {}
        /\ EqualsSigns(argv.pairs[j]) # {}
        /\ TextBefore(argv.pairs[i]) = TextBefore(argv.pairs[j])

\* C5: with two entries of the same source, startup fails: the socket is
\* never bound and no request is handled; and when startup succeeds the map
\* has one entry per supplied pair, each source mapped to its destination.
C5_DuplicateSourceFailsStartup ==
    /\ DuplicateSource =>
          /\ ~bound
          /\ pc # "serving"
          /\ app = None
          /\ \A h \in 1..NumHandlers : handlers[h] = Idle
    /\ pc = "serving" =>
          /\ bound
          /\ Cardinality(DOMAIN app[1].domain_map) = Len(argv.pairs)
          /\ \A i \in 1..Len(argv.pairs) :
                /\ TextBefore(argv.pairs[i]) \in DOMAIN app[1].domain_map
                /\ app[1].domain_map[TextBefore(argv.pairs[i])]
                       = TextAfter(argv.pairs[i])

C5_Witness ==
    /\ DuplicateSource
    /\ pc = "exit"
    /\ err # None
    /\ err[1].msg = "Duplicate destination for domain name {}"
    /\ \E i, j \in 1..Len(argv.pairs) :
          /\ TextBefore(argv.pairs[i]) = TextBefore(argv.pairs[j])
          /\ TextAfter(argv.pairs[i]) # TextAfter(argv.pairs[j])

----------------------------------------------------------------------------
(* C6 *)

ParseFailed ==
    /\ pc = "exit"
    /\ err # None
    /\ err[1].msg = "Invalid domain pair: {}"

\* C6: a pair string is accepted if and only if it holds exactly one '=';
\* an accepted string yields the text before '=' as source and the text
\* after it as dest, either of which may be empty.
C6_ParseIffExactlyOneEquals ==
    pc # "start" =>
        /\ ParseFailed <=>
              \E i \in 1..Len(argv.pairs) :
                  Cardinality(EqualsSigns(argv.pairs[i])) # 1
        /\ ParseFailed => Cardinality(EqualsSigns(err[1].arg)) # 1
        /\ (pc = "loop" /\ Len(pairs) = Len(argv.pairs)) =>
              \A i \in 1..Len(argv.pairs) :
                  pairs[i] = [source |-> TextBefore(argv.pairs[i]),
                              dest |-> TextAfter(argv.pairs[i])]

\* "a=b=..." shapes are rejected
C6_Witness ==
    /\ ParseFailed
    /\ Cardinality(EqualsSigns(argv.pairs[1])) >= 2
    /\ argv.pairs[1][1] # 61

----------------------------------------------------------------------------
(* C7 *)

Resolved(h) == Mapped(h) \/ (Unmapped(h) /\ app[1].fallback # None)
ResolvedDest(h) ==
    IF Mapped(h) THEN app[1].domain_map[HostOf(h)] ELSE app[1].fallback[1]

\* the path and the query string of the request target, and nothing else
PathAndQuery(uri) ==
    uri.path \o (IF uri.query = None THEN << >> ELSE <<63>> \o uri.query[1])

\* C7: the Location of every 308 is <scheme>://<destination> followed by the
\* path and query of the request and by nothing else of the request, also
\* when the request target is in absolute form.
C7_LocationIsDestPlusPathAndQuery ==
    \A h \in DoneHandlers :
        ResOf(h).status = 308 =>
            ResOf(h).headers["location"]
                = Url(ResolvedDest(h), PathAndQuery(ReqOf(h).uri))

----------------------------------------------------------------------------
(* C8 *)

----------------------------------------------------------------------------
(* C9 *)

FoldCase(s) ==
    [i \in 1..Len(s) |-> IF s[i] \in 65..90 THEN s[i] + 32 ELSE s[i]]

IsPrefix(s, t) == Len(s) <= Len(t) /\ SubSeq(t, 1, Len(s)) = s

\* host differs from source only by letter case, by an appended ":port" or
\* by a trailing dot
VariantOf(host, source) ==
    /\ host # source
    /\ \/ FoldCase(host) = FoldCase(source)
       \/ /\ IsPrefix(source, host)
          /\ Len(host) >= Len(source) + 2
          /\ host[Len(source) + 1] = 58
          /\ \A i \in (Len(source) + 2)..Len(host) : host[i] \in 48..57
       \/ host = Append(source, 46)

\* C9 as stated: a Host that is a variant of a configured source is redirected
\* to the fallback when one is configured and answered 400 "Unsupported
\* hostname" otherwise, and never redirected to that source's destination.
C9_VariantHostGoesToFallbackOrRejected ==
    \A h \in DoneHandlers :
        HasHost(h) =>
            \A s \in DOMAIN app[1].domain_map :
                VariantOf(HostOf(h), s) =>
                    /\ IF app[1].fallback # None
                       THEN ResOf(h) = Redirect(Url(app[1].fallback[1], UriText(h)))
                       ELSE ResOf(h) = Reject("Unsupported hostname")
                    /\ ResOf(h) # Redirect(Url(app[1].domain_map[s], UriText(h)))

\* C9 amended: a Host that is a variant of a configured source and is not
\* itself a configured source is handled as an unmapped host: without a
\* fallback it is answered 400 "Unsupported hostname"; with one it is
\* redirected to the fallback, or answered 500 when that URL is not a legal
\* header value.  It is redirected to the source's destination only when the
\* fallback is that same destination.
C9_VariantHostHandledAsUnmapped ==
    \A h \in DoneHandlers :
        Unmapped(h) =>
            \A s \in DOMAIN app[1].domain_map :
                VariantOf(HostOf(h), s) =>
                    /\ IF app[1].fallback = None
                       THEN ResOf(h) = Reject("Unsupported hostname")
                       ELSE LET url == Url(app[1].fallback[1], UriText(h))
                            IN  IF LegalHeaderValue(url)
                                THEN ResOf(h) = Redirect(url)
                                ELSE EncodingError(ResOf(h), url)
                    /\ ResOf(h) = Redirect(Url(app[1].domain_map[s], UriText(h)))
                          => app[1].fallback = Some(app[1].domain_map[s])

\* "A" for the source "a", no fallback
C9_Witness ==
    \E h \in DoneHandlers :
        /\ Unmapped(h)
        /\ app[1].fallback = None
        /\ \E s \in DOMAIN app[1].domain_map :
              /\ HostOf(h) # s
              /\ FoldCase(HostOf(h)) = s
        /\ ResOf(h).status = 400

----------------------------------------------------------------------------
(* C10 *)

\* the configuration the command line describes
StartupConfig ==
    [domain_map |-> [k \in {TextBefore(s) : s \in {argv.pairs[i] : i \in 1..Len(argv.pairs)}}
                        |-> TextAfter(CHOOSE s \in {argv.pairs[i] : i \in 1..Len(argv.pairs)} :
                                          TextBefore(s) = k)],
     fallback |-> argv.fallback,
     insecure |-> argv.insecure]

\* the table of response contracts
Decide(cfg, host, P) ==
    IF host = None
    THEN [status |-> 400, text |-> "Missing host header", location |-> None]
    ELSE IF host[1] \notin DOMAIN cfg.domain_map /\ cfg.fallback = None
    THEN [status |-> 400, text |-> "Unsupported hostname", location |-> None]
    ELSE LET dest == IF host[1] \in DOMAIN cfg.domain_map
                     THEN cfg.domain_map[host[1]] ELSE cfg.fallback[1]
             url == (IF cfg.insecure THEN <<104, 116, 116, 112>>
                     ELSE <<104, 116, 116, 112, 115>>)
                    \o <<58, 47, 47>> \o dest \o P
         IN  IF LegalHeaderValue(url)
             THEN [status |-> 308, text |-> "Redirecting", location |-> Some(url)]
             ELSE [status |-> 500,
                   text |-> "Unable to convert location {:?} to HTTP header value: {:?}",
                   location |-> None]

Summary(res) ==
    [status |-> res.status, text |-> res.body.text,
     location |-> IF NoLocation(res) THEN None ELSE Some(res.headers["location"])]

\* the enabling condition of Handle(h): its guard holds and the response it
\* stores is defined
HandleEnabled(h) ==
    /\ handlers[h].pc = "pending"
    /\ app # None
    /\ handle_inner(app[1], handlers[h].req[1]).status \in {308, 400, 500}

\* HandleEnabled is ENABLED Handle
HandleEnabledIsEnabled ==
    \A h \in 1..NumHandlers : HandleEnabled(h) <=> ENABLED Handle(h)

C10_StateInv ==
    /\ app # None => app = Some(StartupConfig)
    /\ \A h \in 1..NumHandlers :
          /\ handlers[h].pc \in {"idle", "pending", "done"}
          /\ handlers[h].pc = "idle" => handlers[h] = Idle
          /\ handlers[h].pc = "pending" =>
                /\ handlers[h].req # None
                /\ handlers[h].res = None
                /\ HandleEnabled(h)
          /\ handlers[h].pc = "done" =>
                /\ Len(handlers[h].res) = 1
                /\ Summary(ResOf(h))
                       = Decide(StartupConfig, ReqOf(h).host, UriText(h))

C10_Step ==
    /\ app # None => app' = app
    /\ \A h \in 1..NumHandlers :
          \* a handler touches its own slot only, answers its own request, and
          \* an answer once given is not replaced
          /\ handlers[h].pc = "pending" =>
                \/ handlers'[h] = handlers[h]
                \/ /\ handlers'[h].pc = "done"
                   /\ handlers'[h].req = handlers[h].req
          /\ handlers[h].pc = "done" =>
                \/ handlers'[h] = handlers[h]
                \/ handlers'[h] = Idle

\* C10: the configuration is fixed at startup and no handler changes it; in
\* every interleaving of the handlers every accepted request can be answered,
\* is answered once, and its response is one of the four kinds, fixed by the
\* startup configuration and the request's own Host header and URI.
C10_RequestIndependence == [](C10_StateInv) /\ [][C10_Step]_vars

\* two requests in flight, one answered 500 and one answered 308
C10_Witness ==
    \E h1, h2 \in DoneHandlers :
        /\ h1 # h2
        /\ ResOf(h1).status = 500
        /\ ResOf(h2).status = 308

====
